---- MODULE Spec2Model ----
(***************************************************************************)
(* wkreport (cmd/wkreport/main.py): a script that builds a two-row table   *)
(* of text cells, one of them the current local time, renders it as an     *)
(* HTML <table> with escaped cell text, and prints it.                     *)
(*                                                                         *)
(* Python str values are TLA+ strings.  A cell of the table is a Python    *)
(* value: a str is the record [str |-> s]; a value that is not a str is    *)
(* [int |-> n], [none |-> 0] or [datetime |-> d].                          *)
(***************************************************************************)
EXTENDS Integers, Sequences, FiniteSets

VARIABLES pc, now, data, i, parts, table, stdout, stderr

vars == <<pc, now, data, i, parts, table, stdout, stderr>>

(***************************************************************************)
(* Bounds of the model.                                                    *)
(***************************************************************************)
MaxRows == 2
MaxCols == 2
MaxPieces == 3

(***************************************************************************)
(* Python values.                                                          *)
(***************************************************************************)
Str(s) == [str |-> s]

IsStr(v) == DOMAIN v = {"str"}

NoDatetime == [year |-> 0, month |-> 0, day |-> 0, hour |-> 0, minute |-> 0]

(***************************************************************************)
(* str helpers.                                                            *)
(***************************************************************************)
StartsWith(s, p) == Len(s) >= Len(p) /\ SubSeq(s, 1, Len(p)) = p

Drop(s, n) == SubSeq(s, n + 1, Len(s))

RECURSIVE Join(_)
Join(ss) == IF ss = <<>> THEN "" ELSE Head(ss) \o Join(Tail(ss))

\* str.replace(old, new) for a non-empty old: every non-overlapping
\* occurrence of old, found left to right, becomes new.
RECURSIVE replace(_, _, _)
replace(s, old, new) ==
    IF Len(s) = 0 THEN ""
    ELSE IF StartsWith(s, old) THEN new \o replace(Drop(s, Len(old)), old, new)
    ELSE Head(s) \o replace(Tail(s), old, new)

\* html.escape(s) with quote=True: five passes of str.replace over the whole
\* string, "&" first.
\* Mutant: "&" replaced last, so the "&" of an entity is escaped again.
escapeAmpLast(s) ==
    LET s1 == replace(s, "<", "&lt;")
        s2 == replace(s1, ">", "&gt;")
        s3 == replace(s2, "\"", "&quot;")
        s4 == replace(s3, "'", "&#x27;")
    IN  replace(s4, "&", "&amp;")

\* Mutant: quote=False, the quotation marks left as they are.
escapeNoQuote(s) ==
    LET s1 == replace(s, "&", "&amp;")
        s2 == replace(s1, "<", "&lt;")
    IN  replace(s2, ">", "&gt;")

\* Mutant: the apostrophe written as the named entity.
escapeApos(s) ==
    LET s1 == replace(s, "&", "&amp;")
        s2 == replace(s1, "<", "&lt;")
        s3 == replace(s2, ">", "&gt;")
        s4 == replace(s3, "\"", "&quot;")
    IN  replace(s4, "'", "&apos;")

\* Mutant: the solidus escaped as well.
escapeSlash(s) ==
    LET s1 == replace(s, "&", "&amp;")
        s2 == replace(s1, "<", "&lt;")
        s3 == replace(s2, ">", "&gt;")
        s4 == replace(s3, "\"", "&quot;")
        s5 == replace(s4, "'", "&#x27;")
    IN  replace(s5, "/", "&#x2F;")

escape(s) ==
    LET s1 == replace(s, "&", "&amp;")
        s2 == replace(s1, "<", "&lt;")
        s3 == replace(s2, ">", "&gt;")
        s4 == replace(s3, "\"", "&quot;")
    IN  replace(s4, "'", "&#x27;")

(***************************************************************************)
(* datetime.now().strftime("%Y-%m-%d %H:%M")                               *)
(***************************************************************************)
DigitChar(d) == SubSeq("0123456789", d + 1, d + 1)

\* %Y: the year in decimal, as many digits as it has.
RECURSIVE Decimal(_)
Decimal(n) == IF n < 10 THEN DigitChar(n) ELSE Decimal(n \div 10) \o DigitChar(n % 10)

\* %m %d %H %M: two digits, zero-padded.
Pad2(n) == DigitChar((n \div 10) % 10) \o DigitChar(n % 10)

\* Mutant: %I in place of %H, the 12-hour clock.
strftime12(d) ==
    Decimal(d.year) \o "-" \o Pad2(d.month) \o "-" \o Pad2(d.day)
        \o " " \o Pad2(IF d.hour % 12 = 0 THEN 12 ELSE d.hour % 12) \o ":" \o Pad2(d.minute)

strftime(d) ==
    Decimal(d.year) \o "-" \o Pad2(d.month) \o "-" \o Pad2(d.day)
        \o " " \o Pad2(d.hour) \o ":" \o Pad2(d.minute)

\* The values datetime.now() is drawn from: local wall-clock times, to the minute.
Years == {1969, 1970, 2026, 9999}
Months == 1..12
Days == {1, 9, 10, 28}
Hours == {0, 9, 10, 23}
Minutes == {0, 7, 59}

Clock == [year : Years, month : Months, day : Days, hour : Hours, minute : Minutes]

(***************************************************************************)
(* The script.                                                             *)
(***************************************************************************)
Header == <<Str("KEY"), Str("SUMMARY"), Str("STATUS"), Str("PARENT"), Str("RESOLVED")>>

DataRow(t) == <<Str("ABC-1"), Str("Something"), Str("In Progress"), Str("ABC"), Str(t)>>

\* lines 4-7: data = [header, (..., datetime.now().strftime(...))]
BuildData ==
    /\ pc = "start"
    /\ \E d \in Clock :
          /\ now' = d
          /\ data' = <<Header, DataRow(strftime(d))>>
    /\ pc' = "open"
    /\ UNCHANGED <<i, parts, table, stdout, stderr>>

\* line 9: table = '<table>\n'
OpenTable ==
    /\ pc = "open"
    /\ table' = "<table>\n"
    /\ pc' = "rows"
    /\ UNCHANGED <<now, data, i, parts, stdout, stderr>>

\* line 10: for row in data: the next row, if any
NextRow ==
    /\ pc = "rows"
    /\ i < Len(data)
    /\ i' = i + 1
    /\ parts' = <<>>
    /\ pc' = "cells"
    /\ UNCHANGED <<now, data, table, stdout, stderr>>

\* line 11, one step of the generator: f'<td>{html.escape(cell)}</td>' for the
\* next cell of the row.  html.escape calls cell.replace("&", "&amp;"), which
\* raises for a cell that is not a str; nothing catches it, so the traceback
\* goes to standard error and the script ends.
\* Mutant: the cell text put in unescaped.
TdRaw(cell) == "<td>" \o cell.str \o "</td>"

Td(cell) == "<td>" \o escape(cell.str) \o "</td>"

\* str(v) for the values of the model.
PyStr(v) ==
    IF IsStr(v) THEN v.str
    ELSE IF DOMAIN v = {"int"} THEN Decimal(v.int)
    ELSE IF DOMAIN v = {"none"} THEN "None"
    ELSE Pad2(v.datetime.year \div 100) \o Pad2(v.datetime.year) \o "-" \o Pad2(v.datetime.month) \o "-" \o Pad2(v.datetime.day)
             \o " " \o Pad2(v.datetime.hour) \o ":" \o Pad2(v.datetime.minute) \o ":00"

\* Mutant: html.escape(str(cell)), every cell stringified before it is escaped.
CellStringified ==
    /\ pc = "cells"
    /\ Len(parts) < Len(data[i])
    /\ parts' = Append(parts, Td(Str(PyStr(data[i][Len(parts) + 1]))))
    /\ UNCHANGED <<pc, stderr, now, data, i, table, stdout>>

Cell ==
    /\ pc = "cells"
    /\ Len(parts) < Len(data[i])
    /\ LET cell == data[i][Len(parts) + 1] IN
          IF IsStr(cell)
          THEN /\ parts' = Append(parts, Td(cell))
               /\ UNCHANGED <<pc, stderr>>
          ELSE /\ pc' = "raised"
               /\ stderr' = "Traceback"
               /\ UNCHANGED parts
    /\ UNCHANGED <<now, data, i, table, stdout>>

\* line 11, the generator exhausted: table += '  <tr>' + ''.join(...) + '</tr>\n'
\* Mutant: the cells joined with a separator.
RowLineSep(ps) == "  <tr>" \o Join([k \in DOMAIN ps |-> IF k = 1 THEN ps[k] ELSE " " \o ps[k]]) \o "</tr>\n"

RowLine(ps) == "  <tr>" \o Join(ps) \o "</tr>\n"

EndRow ==
    /\ pc = "cells"
    /\ Len(parts) = Len(data[i])
    /\ table' = table \o RowLine(parts)
    /\ pc' = "rows"
    /\ UNCHANGED <<now, data, i, parts, stdout, stderr>>

\* line 12, after the loop: table += '</table>'
CloseTable ==
    /\ pc = "rows"
    /\ i = Len(data)
    /\ table' = table \o "</table>"
    /\ pc' = "print"
    /\ UNCHANGED <<now, data, i, parts, stdout, stderr>>

\* line 13: print(table) writes the string and then the default end, '\n'
\* Mutant: print(table, end='').
PrintedNoEnd(s) == s

Printed(s) == s \o "\n"

PrintTable ==
    /\ pc = "print"
    /\ stdout' = Printed(table)
    /\ pc' = "done"
    /\ UNCHANGED <<now, data, i, parts, table, stderr>>

Init ==
    /\ pc = "start"
    /\ now = NoDatetime
    /\ data = <<>>
    /\ i = 0
    /\ parts = <<>>
    /\ table = ""
    /\ stdout = ""
    /\ stderr = ""

(***************************************************************************)
(* The rendering loop of lines 9-13 on any table: the tables it is given   *)
(* in place of the script's own.                                           *)
(***************************************************************************)
SeqsUpTo(S, n) == UNION {[1..k -> S] : k \in 0..n}

\* Cells whose text is itself table markup.
MarkupCells == {Str("<tr>"), Str("<td>")}

Rows == SeqsUpTo(MarkupCells, MaxCols)

\* Zero rows, empty rows and rows of unequal length included.
Tables == SeqsUpTo(Rows, MaxRows)

\* Cell texts put together from the special characters, ordinary characters
\* and text that already looks like an entity.
Pieces == {"&", "<", ">", "\"", "'", "a", ";", "&amp;", "&#x27;"}

Texts == {Join(ps) : ps \in SeqsUpTo(Pieces, MaxPieces)} \cup {"</tr>", "n/a", "O'Brien & <Sons>"}

OneCellTables == {<< <<Str(t)>> >> : t \in Texts}

\* Values that are not str: a number, None, a datetime object.
NonText ==
    {[int |-> 7], [none |-> 0],
     [datetime |-> [year |-> 2026, month |-> 11, day |-> 1, hour |-> 4, minute |-> 20]]}

\* A row of text cells with one cell replaced by a value that is not a str.
PokedRows == UNION {{[r EXCEPT ![c] = v] : c \in DOMAIN r, v \in NonText} : r \in Rows}

\* Tables with one cell that is not a str, alone or beside a row of text cells.
MixedTables ==
    {<<p>> : p \in PokedRows}
        \cup {<<r, p>> : r \in Rows, p \in PokedRows}
        \cup {<<p, r>> : r \in Rows, p \in PokedRows}

InitRender ==
    /\ pc = "open"
    /\ now = NoDatetime
    /\ data \in Tables \cup OneCellTables \cup MixedTables
    /\ i = 0
    /\ parts = <<>>
    /\ table = ""
    /\ stdout = ""
    /\ stderr = ""

Render == OpenTable \/ NextRow \/ Cell \/ EndRow \/ CloseTable \/ PrintTable

Next == BuildData \/ Render

Spec == Init /\ [][Next]_vars

SpecRender == InitRender /\ [][Render]_vars

(***************************************************************************)
(* Properties.                                                             *)
(***************************************************************************)
Rendered == pc \in {"print", "done"}

AllText(t) == \A r \in DOMAIN t : \A c \in DOMAIN t[r] : IsStr(t[r][c])

EndsWith(s, p) == Len(s) >= Len(p) /\ SubSeq(s, Len(s) - Len(p) + 1, Len(s)) = p

\* The text between "<td>" and "</td>" of one rendered cell.
Inner(p) == SubSeq(p, 5, Len(p) - 5)

\* The text of the row currently being rendered, cell k.
CellText(k) == data[i][k].str

Specials == {"&", "<", ">", "\"", "'"}

HasSpecial(t) == \E k \in 1..Len(t) : SubSeq(t, k, k) \in Specials

\* The table markup as the contract words it: per cell, per row, whole table.
RECURSIVE ExpectedCells(_)
ExpectedCells(row) ==
    IF row = <<>> THEN ""
    ELSE "<td>" \o escape(Head(row).str) \o "</td>" \o ExpectedCells(Tail(row))

RECURSIVE ExpectedRows(_)
ExpectedRows(rows) ==
    IF rows = <<>> THEN ""
    ELSE "  <tr>" \o ExpectedCells(Head(rows)) \o "</tr>\n" \o ExpectedRows(Tail(rows))

\* C1: once the loop and line 12 have run, the rendered string is exactly
\* "<table>\n", one "  <tr>...</tr>\n" line per row in input order, each the
\* unseparated "<td>escape(cell)</td>" of its cells in order, then "</table>"
\* and nothing more; while the loop runs it is that prefix for the rows done;
\* for zero rows it is "<table>\n</table>".
C1_RenderedExactly ==
    /\ pc = "rows" => table = "<table>\n" \o ExpectedRows(SubSeq(data, 1, i))
    /\ Rendered => table = "<table>\n" \o ExpectedRows(data) \o "</table>"
    /\ (Rendered /\ data = <<>>) => table = "<table>\n</table>"

C1_Witness ==
    /\ pc = "done"
    /\ Len(data) = 2
    /\ Len(data[1]) = 2
    /\ Len(data[2]) = 1
    /\ AllText(data)

\* The escaping as one left-to-right pass, each character mapped on its own.
EscapeChar(c) ==
    CASE c = "&" -> "&amp;"
      [] c = "<" -> "&lt;"
      [] c = ">" -> "&gt;"
      [] c = "\"" -> "&quot;"
      [] c = "'" -> "&#x27;"
      [] OTHER -> c

RECURSIVE SinglePass(_)
SinglePass(t) == IF Len(t) = 0 THEN "" ELSE EscapeChar(Head(t)) \o SinglePass(Tail(t))

\* C2: the text rendered for every cell is the single-pass, per-character
\* escaping of the cell, so nothing a replacement produced is escaped again;
\* the cell O'Brien & <Sons> renders as O&#x27;Brien &amp; &lt;Sons&gt;.
C2_SinglePass ==
    \A k \in DOMAIN parts :
        /\ parts[k] = "<td>" \o SinglePass(CellText(k)) \o "</td>"
        /\ CellText(k) = "O'Brien & <Sons>" => Inner(parts[k]) = "O&#x27;Brien &amp; &lt;Sons&gt;"

C2_Witness ==
    /\ pc = "done"
    /\ data = << <<Str("O'Brien & <Sons>")>> >>
    /\ table = "<table>\n  <tr><td>O&#x27;Brien &amp; &lt;Sons&gt;</td></tr>\n</table>"

(***************************************************************************)
(* HTML-unescaping, the inverse the round trip is measured against:        *)
(* Python's html.unescape, which replaces every match of                   *)
(*   &(#[0-9]+;?|#[xX][0-9a-fA-F]+;?|[^\t\n\f <&#;]{1,32};?)               *)
(* by the character it refers to.  Its result is a sequence of code        *)
(* points.  The table of named references holds the entries of             *)
(* html.entities.html5 whose names are written with the characters of      *)
(* UnescapeAlphabet, so the operator is exact on strings over it.          *)
(***************************************************************************)
\* ord(c) for the characters of the model's strings: the newline, " " (32)
\* to "[" (91), and "a" (97) to "~" (126).
AsciiLow == " !\"#$%&'()*+,-./0123456789:;<=>?@ABCDEFGHIJKLMNOPQRSTUVWXYZ["

AsciiHigh == "abcdefghijklmnopqrstuvwxyz{|}~"

ord(c) ==
    IF c = "\n" THEN 10
    ELSE IF \E k \in 1..Len(AsciiLow) : SubSeq(AsciiLow, k, k) = c
    THEN 31 + (CHOOSE k \in 1..Len(AsciiLow) : SubSeq(AsciiLow, k, k) = c)
    ELSE 96 + (CHOOSE k \in 1..Len(AsciiHigh) : SubSeq(AsciiHigh, k, k) = c)

Ords(t) == [k \in 1..Len(t) |-> ord(SubSeq(t, k, k))]

CharsOf(t) == {SubSeq(t, k, k) : k \in 1..Len(t)}

UnescapeAlphabet == CharsOf("&<>\"';#ampltgquox27")

DecDigits == CharsOf("0123456789")

HexDigits == CharsOf("0123456789abcdefABCDEF")

NameStop == {"\t", "\n", "\f", " ", "<", "&", "#", ";"}

DigitValue(c) ==
    LET lower == "0123456789abcdef"
        upper == "0123456789ABCDEF"
    IN  IF \E k \in 1..16 : SubSeq(lower, k, k) = c
        THEN (CHOOSE k \in 1..16 : SubSeq(lower, k, k) = c) - 1
        ELSE (CHOOSE k \in 1..16 : SubSeq(upper, k, k) = c) - 1

\* How many leading characters of s, at most n, are in cs.
RECURSIVE SpanIn(_, _, _)
SpanIn(s, cs, n) ==
    IF n = 0 \/ Len(s) = 0 \/ Head(s) \notin cs THEN 0 ELSE 1 + SpanIn(Tail(s), cs, n - 1)

\* How many leading characters of s, at most n, are not in cs.
RECURSIVE SpanNotIn(_, _, _)
SpanNotIn(s, cs, n) ==
    IF n = 0 \/ Len(s) = 0 \/ Head(s) \in cs THEN 0 ELSE 1 + SpanNotIn(Tail(s), cs, n - 1)

\* 1 when the optional ";" follows the first n characters of s.
Semi(s, n) == IF Len(s) > n /\ SubSeq(s, n + 1, n + 1) = ";" THEN 1 ELSE 0

\* The length of the regular expression's group matched at the start of r, the
\* text after an "&"; 0 when there is no match.  The alternatives are tried in
\* order and each is greedy.
GroupLen(r) ==
    LET dec == IF StartsWith(r, "#") THEN SpanIn(Drop(r, 1), DecDigits, Len(r)) ELSE 0
        hex == IF StartsWith(r, "#x") \/ StartsWith(r, "#X")
               THEN SpanIn(Drop(r, 2), HexDigits, Len(r)) ELSE 0
        name == SpanNotIn(r, NameStop, 32)
    IN  IF dec > 0 THEN 1 + dec + Semi(r, 1 + dec)
        ELSE IF hex > 0 THEN 2 + hex + Semi(r, 2 + hex)
        ELSE IF name > 0 THEN name + Semi(r, name)
        ELSE 0

\* int(digits, base); a value already past the last code point stays past it.
RECURSIVE ParseInt(_, _, _)
ParseInt(ds, base, acc) ==
    IF Len(ds) = 0 THEN acc
    ELSE ParseInt(Tail(ds), base,
                  IF acc > 1114111 THEN acc ELSE acc * base + DigitValue(Head(ds)))

RStripSemi(g) == IF EndsWith(g, ";") THEN SubSeq(g, 1, Len(g) - 1) ELSE g

Html5Names ==
    {"amalg;", "amp", "amp;", "ap;", "auml", "auml;", "gamma;", "gap;",
     "gg;", "ggg;", "gl;", "gla;", "gt", "gt;", "lap;", "laquo",
     "laquo;", "lat;", "lg;", "ll;", "lt", "lt;", "malt;", "map;",
     "mp;", "mu;", "mumap;", "ogt;", "olt;", "ouml", "ouml;", "pm;",
     "quot", "quot;", "tau;", "top;", "uml", "uml;", "uuml", "uuml;",
     "xmap;"}

Html5(name) ==
    CASE name = "amalg;" -> <<10815>>
      [] name = "amp" -> <<38>>
      [] name = "amp;" -> <<38>>
      [] name = "ap;" -> <<8776>>
      [] name = "auml" -> <<228>>
      [] name = "auml;" -> <<228>>
      [] name = "gamma;" -> <<947>>
      [] name = "gap;" -> <<10886>>
      [] name = "gg;" -> <<8811>>
      [] name = "ggg;" -> <<8921>>
      [] name = "gl;" -> <<8823>>
      [] name = "gla;" -> <<10917>>
      [] name = "gt" -> <<62>>
      [] name = "gt;" -> <<62>>
      [] name = "lap;" -> <<10885>>
      [] name = "laquo" -> <<171>>
      [] name = "laquo;" -> <<171>>
      [] name = "lat;" -> <<10923>>
      [] name = "lg;" -> <<8822>>
      [] name = "ll;" -> <<8810>>
      [] name = "lt" -> <<60>>
      [] name = "lt;" -> <<60>>
      [] name = "malt;" -> <<10016>>
      [] name = "map;" -> <<8614>>
      [] name = "mp;" -> <<8723>>
      [] name = "mu;" -> <<956>>
      [] name = "mumap;" -> <<8888>>
      [] name = "ogt;" -> <<10689>>
      [] name = "olt;" -> <<10688>>
      [] name = "ouml" -> <<246>>
      [] name = "ouml;" -> <<246>>
      [] name = "pm;" -> <<177>>
      [] name = "quot" -> <<34>>
      [] name = "quot;" -> <<34>>
      [] name = "tau;" -> <<964>>
      [] name = "top;" -> <<8868>>
      [] name = "uml" -> <<168>>
      [] name = "uml;" -> <<168>>
      [] name = "uuml" -> <<252>>
      [] name = "uuml;" -> <<252>>
      [] name = "xmap;" -> <<10236>>

InvalidCharrefs == {0, 13} \cup (128..159)

InvalidCharref(n) ==
    CASE n = 0 -> <<65533>>
      [] n = 13 -> <<13>>
      [] n = 128 -> <<8364>>
      [] n = 129 -> <<129>>
      [] n = 130 -> <<8218>>
      [] n = 131 -> <<402>>
      [] n = 132 -> <<8222>>
      [] n = 133 -> <<8230>>
      [] n = 134 -> <<8224>>
      [] n = 135 -> <<8225>>
      [] n = 136 -> <<710>>
      [] n = 137 -> <<8240>>
      [] n = 138 -> <<352>>
      [] n = 139 -> <<8249>>
      [] n = 140 -> <<338>>
      [] n = 141 -> <<141>>
      [] n = 142 -> <<381>>
      [] n = 143 -> <<143>>
      [] n = 144 -> <<144>>
      [] n = 145 -> <<8216>>
      [] n = 146 -> <<8217>>
      [] n = 147 -> <<8220>>
      [] n = 148 -> <<8221>>
      [] n = 149 -> <<8226>>
      [] n = 150 -> <<8211>>
      [] n = 151 -> <<8212>>
      [] n = 152 -> <<732>>
      [] n = 153 -> <<8482>>
      [] n = 154 -> <<353>>
      [] n = 155 -> <<8250>>
      [] n = 156 -> <<339>>
      [] n = 157 -> <<157>>
      [] n = 158 -> <<382>>
      [] n = 159 -> <<376>>

InvalidCodepoints ==
    (1..8) \cup {11} \cup (14..31) \cup (127..159) \cup (64976..65007)
        \cup (65534..65535) \cup (131070..131071) \cup (196606..196607)
        \cup (262142..262143) \cup (327678..327679) \cup (393214..393215)
        \cup (458750..458751) \cup (524286..524287) \cup (589822..589823)
        \cup (655358..655359) \cup (720894..720895) \cup (786430..786431)
        \cup (851966..851967) \cup (917502..917503) \cup (983038..983039)
        \cup (1048574..1048575) \cup (1114110..1114111)

\* _replace_charref: the replacement of one matched group.
ReplaceCharref(g) ==
    IF Head(g) = "#"
    THEN LET num == IF SubSeq(g, 2, 2) \in {"x", "X"}
                    THEN ParseInt(RStripSemi(Drop(g, 2)), 16, 0)
                    ELSE ParseInt(RStripSemi(Drop(g, 1)), 10, 0)
         IN  IF num \in InvalidCharrefs THEN InvalidCharref(num)
             ELSE IF (55296 <= num /\ num <= 57343) \/ num > 1114111 THEN <<65533>>
             ELSE IF num \in InvalidCodepoints THEN <<>>
             ELSE <<num>>
    ELSE IF g \in Html5Names THEN Html5(g)
    ELSE LET xs == {x \in 2..(Len(g) - 1) : SubSeq(g, 1, x) \in Html5Names}
         IN  IF xs # {}
             THEN LET x == CHOOSE y \in xs : \A z \in xs : z <= y
                  IN  Html5(SubSeq(g, 1, x)) \o Ords(Drop(g, x))
             ELSE Ords("&" \o g)

RECURSIVE CharrefSub(_)
CharrefSub(s) ==
    IF Len(s) = 0 THEN <<>>
    ELSE LET g == IF Head(s) = "&" THEN GroupLen(Tail(s)) ELSE 0
         IN  IF g > 0
             THEN ReplaceCharref(SubSeq(s, 2, 1 + g)) \o CharrefSub(Drop(s, 1 + g))
             ELSE <<ord(Head(s))>> \o CharrefSub(Tail(s))

unescape(s) == IF "&" \notin CharsOf(s) THEN Ords(s) ELSE CharrefSub(s)

\* C3: for every cell text with a special character in it, HTML-unescaping
\* the rendered cell text gives back the cell text, also when the text
\* already holds entity-like text such as "&amp;" or "&#x27;".
C3_RoundTrip ==
    \A k \in DOMAIN parts :
        (HasSpecial(CellText(k)) /\ CharsOf(CellText(k)) \subseteq UnescapeAlphabet)
            => unescape(Inner(parts[k])) = Ords(CellText(k))

C3_Witness ==
    /\ pc = "done"
    /\ data = << <<Str("&amp;'&#x27;")>> >>
    /\ parts = <<"<td>&amp;amp;&#x27;&amp;#x27;</td>">>
    /\ unescape(Inner(parts[1])) = Ords("&amp;'&#x27;")

Entities == {"&amp;", "&lt;", "&gt;", "&quot;", "&#x27;"}

\* The text of s at place k that is as long as p; "" when s ends before that.
At(s, k, p) == IF k + Len(p) - 1 <= Len(s) THEN SubSeq(s, k, k + Len(p) - 1) ELSE ""

\* No "&" of t stands raw: each one starts exactly one of the five entities.
AmpsStartEntities(t) ==
    \A k \in 1..Len(t) :
        SubSeq(t, k, k) = "&" => Cardinality({e \in Entities : At(t, k, e) = e}) = 1

\* C4: for every cell text with a special character in it, the rendered cell
\* text holds no raw occurrence of the five characters: no < > " ' at all, and
\* no "&" other than the one opening an entity.
C4_NoRawSpecials ==
    \A k \in DOMAIN parts :
        HasSpecial(CellText(k)) =>
            /\ CharsOf(Inner(parts[k])) \cap {"<", ">", "\"", "'"} = {}
            /\ AmpsStartEntities(Inner(parts[k]))

C4_Witness ==
    /\ pc = "cells"
    /\ data = << <<Str("\"'&")>> >>
    /\ parts = <<"<td>&quot;&#x27;&amp;</td>">>

\* C5: for every cell text without any of the five special characters, the
\* text put between "<td>" and "</td>" is the cell text unchanged.
C5_SafeTextUnchanged ==
    \A k \in DOMAIN parts :
        ~HasSpecial(CellText(k)) => parts[k] = "<td>" \o CellText(k) \o "</td>"

C5_Witness ==
    /\ pc = "done"
    /\ data = << <<Str("n/a")>> >>
    /\ table = "<table>\n  <tr><td>n/a</td></tr>\n</table>"

\* The number of places of s where sub occurs; for a sub that cannot overlap
\* itself, as all those counted here, what str.count(sub) gives.
Count(s, sub) == Cardinality({k \in 1..(Len(s) - Len(sub) + 1) : At(s, k, sub) = sub})

\* s.find(sub): the place of the first occurrence of sub in s, 0 when none.
Find(s, sub) ==
    LET at == {k \in 1..(Len(s) - Len(sub) + 1) : At(s, k, sub) = sub}
    IN  IF at = {} THEN 0 ELSE CHOOSE k \in at : \A m \in at : k <= m

\* The text of the n-th "<tr>" of s: from after that "<tr>" up to the next
\* "<tr>", or to the end.
RECURSIVE TrBody(_, _)
TrBody(s, n) ==
    LET rest == Drop(s, Find(s, "<tr>") + 3)
        stop == Find(rest, "<tr>")
    IN  IF n = 1 THEN (IF stop = 0 THEN rest ELSE SubSeq(rest, 1, stop - 1))
        ELSE TrBody(rest, n - 1)

\* C6: whatever the cells hold, "<tr>", "<td>" and "</tr>" included, and
\* whether or not the rows are equally long, the rendered string has as many
\* "<tr>" as the table has rows and, inside the r-th "<tr>", as many "<td>"
\* as row r has cells; a table of text cells is rendered to the end, no row
\* rejected.
C6_Structure ==
    /\ Rendered =>
          /\ Count(table, "<tr>") = Len(data)
          /\ \A r \in DOMAIN data : Count(TrBody(table, r), "<td>") = Len(data[r])
    /\ AllText(data) => pc # "raised"

C6_Witness ==
    /\ pc = "done"
    /\ data = << <<Str("<tr>"), Str("<td>")>>, <<Str("<td>")>> >>
    /\ Count(table, "<tr>") = 2
    /\ Count(TrBody(table, 1), "<td>") = 2
    /\ Count(TrBody(table, 2), "<td>") = 1

Tags == {"<table>", "</table>", "<tr>", "</tr>", "<td>", "</td>"}

\* Every "<" of s opens one of the fixed tags and every ">" closes one.
AnglesInTags(s) ==
    \A k \in 1..Len(s) :
        /\ SubSeq(s, k, k) = "<" => \E t \in Tags : At(s, k, t) = t
        /\ SubSeq(s, k, k) = ">" => \E t \in Tags : k >= Len(t) /\ At(s, k - Len(t) + 1, t) = t

\* C10: the rendered text of every cell holds none of < > " ', and every "&"
\* in it starts exactly one of the five entities; so in the whole rendered
\* string, and in what is printed, every "<" and ">" is part of one of the
\* fixed tags and never of cell content.
C10_OnlyTagAngles ==
    /\ \A k \in DOMAIN parts :
          /\ \A n \in 1..Len(Inner(parts[k])) :
                SubSeq(Inner(parts[k]), n, n) \notin {"<", ">", "\"", "'"}
          /\ AmpsStartEntities(Inner(parts[k]))
    /\ Rendered => AnglesInTags(table)
    /\ AnglesInTags(stdout)

C10_Witness ==
    /\ pc = "done"
    /\ data = << <<Str("<td>"), Str("<tr>")>>, <<Str("<tr>"), Str("<td>")>> >>
    /\ AnglesInTags(stdout)
    /\ Count(stdout, "&lt;") = 4

\* C7 as claimed: what is on standard output ends with the final "</table>",
\* nothing after it.
C7_StdoutEndsWithTag == pc = "done" => EndsWith(stdout, "</table>")

\* C7, amended: the rendered string ends with "</table>" and each of its row
\* lines ends with a newline; print writes that string and then one newline,
\* so standard output ends with "</table>\n".
C7_StdoutEndsWithNewline ==
    pc = "done" =>
        /\ EndsWith(table, "</table>")
        /\ Count(table, "</tr>\n") = Len(data)
        /\ stdout = table \o "\n"
        /\ Count(stdout, "\n") = Len(data) + 2

C7_Witness ==
    /\ pc = "done"
    /\ Len(data) = 2
    /\ EndsWith(stdout, "</td></tr>\n</table>\n")

Stamp(d) ==
    DigitChar(d.year \div 1000) \o DigitChar((d.year \div 100) % 10)
        \o DigitChar((d.year \div 10) % 10) \o DigitChar(d.year % 10)
        \o "-" \o DigitChar(d.month \div 10) \o DigitChar(d.month % 10)
        \o "-" \o DigitChar(d.day \div 10) \o DigitChar(d.day % 10)
        \o " " \o DigitChar(d.hour \div 10) \o DigitChar(d.hour % 10)
        \o ":" \o DigitChar(d.minute \div 10) \o DigitChar(d.minute % 10)

\* C9: at every clock value the script's rendered table is "<table>", the
\* header line, the data line and "</table>", the header cells in "<td>" like
\* any others, the last data cell the local time as 16 characters
\* YYYY-MM-DD HH:MM, which escaping leaves as it is.
C9_ProgramOutput ==
    Rendered =>
        /\ Len(Stamp(now)) = 16
        /\ escape(Stamp(now)) = Stamp(now)
        /\ table = "<table>\n"
              \o "  <tr><td>KEY</td><td>SUMMARY</td><td>STATUS</td><td>PARENT</td><td>RESOLVED</td></tr>\n"
              \o "  <tr><td>ABC-1</td><td>Something</td><td>In Progress</td><td>ABC</td><td>"
              \o Stamp(now) \o "</td></tr>\n"
              \o "</table>"

C9_Witness ==
    /\ pc = "done"
    /\ now = [year |-> 2026, month |-> 1, day |-> 9, hour |-> 23, minute |-> 7]
    /\ table = "<table>\n  <tr><td>KEY</td><td>SUMMARY</td><td>STATUS</td><td>PARENT</td><td>RESOLVED</td></tr>\n  <tr><td>ABC-1</td><td>Something</td><td>In Progress</td><td>ABC</td><td>2026-01-09 23:07</td></tr>\n</table>"

====
